---- MODULE Spec2Model ----
(***************************************************************************)
(* Model of src/universal-app/ssr-screenshot-test-runner.ts: the script    *)
(* renders the kitchen-sink app, takes a screenshot of it with a headless  *)
(* browser and either stores the screenshot as the golden (approve) or     *)
(* compares it with the golden (verify).                                   *)
(*                                                                         *)
(* One process invocation is one run.  Every `await` of main() is a step   *)
(* of its own; the awaited collaborator either returns or rejects.  The    *)
(* file system (golden file, diff file) outlives a run, so that a run can  *)
(* follow another one.                                                     *)
(***************************************************************************)
EXTENDS Integers, Sequences, FiniteSets

VARIABLES
  pc,                      \* position of the process in the script
  webTestEnv,              \* process.env / web test metadata of this invocation
  approveGolden,           \* args[1] === 'true'
  fs,                      \* files at goldenPath and screenshotDiffPath
  rendered,                \* PNG bytes the browser produces for the rendered page
  browser,                 \* "none", "open" or "closed"
  bodyScrollHeight,        \* result of page.evaluate, 0 before it
  viewport,                \* viewport of the page
  currentScreenshotBuffer, \* result of page.screenshot
  currentScreenshot,       \* decode(currentScreenshotBuffer)
  goldenScreenshot,        \* decode(readFileSync(goldenPath))
  diffImageData,           \* output buffer handed to pixelmatch
  numDiffPixels,           \* result of pixelmatch, -1 before it
  thrown,                  \* the rejection travelling to main(...).catch
  exitCode,                \* exit code of the process, -1 while it runs
  log,                     \* collaborator calls, file accesses and console lines of this run
  run,                     \* number of this invocation
  prev,                    \* approve flag and exit code of the previous invocation
  fsAtStart                \* the files when this invocation started

vars == <<pc, webTestEnv, approveGolden, fs, rendered, browser, bodyScrollHeight,
          viewport, currentScreenshotBuffer, currentScreenshot, goldenScreenshot,
          diffImageData, numDiffPixels, thrown, exitCode, log, run, prev,
          fsAtStart>>

(***************************************************************************)
(* Bounds.                                                                 *)
(***************************************************************************)
\* Largest number of pixels (width * height) of an image.
MaxPixels == 2
\* Largest value page.evaluate returns for document.body.scrollHeight.
MaxScrollHeight == 2
\* Number of process invocations in a behaviour.
MaxRuns == 2

(***************************************************************************)
(* Program constants.                                                      *)
(***************************************************************************)
screenshotBrowserWidth == 1920

NoExit == -1
NoCount == -1

(***************************************************************************)
(* Images and the PNG codec (fast-png): encode puts the header (width,     *)
(* height) in front of the pixel data, decode parses it back.              *)
(***************************************************************************)
\* One value stands for one RGBA pixel.  The script only ever asks whether the
\* golden and the screenshot agree at a position, and two values are enough to
\* give every pattern of agreement between two images.
Colours == {0, 1}

Dims == {d \in (1..MaxPixels) \X (1..MaxPixels) : d[1] * d[2] <= MaxPixels}

Images == UNION {[width : {d[1]}, height : {d[2]}, data : [1..(d[1] * d[2]) -> Colours]]
                 : d \in Dims}

NoImage == [width |-> 0, height |-> 0, data |-> <<>>]

encode(img) == <<img.width, img.height>> \o img.data

decode(bytes) ==
  [width |-> bytes[1], height |-> bytes[2], data |-> SubSeq(bytes, 3, Len(bytes))]

(***************************************************************************)
(* Files.                                                                  *)
(***************************************************************************)
NoFile == [exists |-> FALSE, bytes |-> <<>>]

File(bytes) == [exists |-> TRUE, bytes |-> bytes]

goldenPath == "golden"

screenshotDiffPath == "image-diff.png"

\* Variant: the bytes land in the diff file whatever the path.
writeFileSync_diffPath(files, path, bytes) ==
  [files EXCEPT ![screenshotDiffPath] = File(bytes)]

writeFileSync(files, path, bytes) == [files EXCEPT ![path] = File(bytes)]

(***************************************************************************)
(* The log of a run.                                                       *)
(***************************************************************************)
Ev(name, n) == [ev |-> name, n |-> n]

Count(name) == Cardinality({i \in DOMAIN log : log[i].ev = name})

Pos(name) ==
  LET at == {i \in DOMAIN log : log[i].ev = name}
  IN  IF at = {} THEN 0 ELSE CHOOSE i \in at : \A j \in at : i <= j

Envs == {"ok", "noMetadata", "noChromium"}

Init ==
  /\ pc = "load"
  /\ webTestEnv \in Envs
  /\ approveGolden \in BOOLEAN
  /\ \E g \in {NoFile} \cup {File(encode(i)) : i \in Images} :
       fs = [p \in {goldenPath, screenshotDiffPath} |->
               IF p = goldenPath THEN g ELSE NoFile]
  /\ fsAtStart = fs
  /\ rendered \in {encode(i) : i \in Images}
  /\ browser = "none"
  /\ bodyScrollHeight = 0
  /\ viewport = [width |-> 0, height |-> 0]
  /\ currentScreenshotBuffer = <<>>
  /\ currentScreenshot = NoImage
  /\ goldenScreenshot = NoImage
  /\ diffImageData = <<>>
  /\ numDiffPixels = NoCount
  /\ thrown = "none"
  /\ exitCode = NoExit
  /\ log = <<>>
  /\ run = 1
  /\ prev = [ran |-> FALSE, approve |-> FALSE, exitCode |-> NoExit]

(***************************************************************************)
(* pixelmatch(img1, img2, output, width, height) of the pixelmatch         *)
(* package: it rejects buffers of different lengths and buffers whose      *)
(* length does not fit width * height, and otherwise walks the two         *)
(* buffers by index, marks the differing pixels in output and returns      *)
(* their number.  It never looks at the width and height the images were   *)
(* decoded with.                                                           *)
(***************************************************************************)
pixelmatchThrows(img1, img2, output, width, height) ==
  \/ Len(img1) # Len(img2)
  \/ Len(output) # Len(img1)
  \/ Len(img1) # width * height

pixelmatchOutput(img1, img2) ==
  [i \in 1..Len(img1) |-> IF img1[i] # img2[i] THEN 1 ELSE 0]

\* Variant: the pixels that agree are counted.
pixelmatch_countsEqual(img1, img2) ==
  Cardinality({i \in 1..Len(img1) : img1[i] = img2[i]})

pixelmatch(img1, img2) ==
  Cardinality({i \in 1..Len(img1) : img1[i] # img2[i]})

\* new Uint8Array({length: n}): n zero bytes.
Uint8Array(n) == [i \in 1..n |-> 0]

(***************************************************************************)
(* Helpers shared by the steps.                                            *)
(***************************************************************************)
\* Variables no step of a run changes.
runVars == <<webTestEnv, approveGolden, rendered, run, prev, fsAtStart>>

\* Locals of main() after the capture.
compareVars == <<currentScreenshot, goldenScreenshot, diffImageData, numDiffPixels>>

\* process.exit(code), or the process ending after main() resolved.
Exit(code, entries) ==
  /\ pc' = "exited"
  /\ exitCode' = code
  /\ log' = log \o entries
  /\ UNCHANGED thrown

\* An awaited or synchronous call throws: the rejection reaches main(...).catch.
Throw(err, entries) ==
  /\ pc' = "catch"
  /\ thrown' = err
  /\ log' = log \o entries
  /\ UNCHANGED exitCode

\* The call returns and main() goes on with its next statement.
Step(next, entries) ==
  /\ pc' = next
  /\ log' = log \o entries
  /\ UNCHANGED <<thrown, exitCode>>

\* Lines 34-50: module initialisation.
ModuleInit ==
  /\ pc = "load"
  /\ IF webTestEnv = "noMetadata"
       THEN Exit(1, <<Ev("stderr:no-browser", 0)>>)
       ELSE Step("entry", <<>>)
  /\ UNCHANGED <<runVars, compareVars, fs, browser, bodyScrollHeight, viewport,
                 currentScreenshotBuffer>>

\* Lines 55-60: the entry point calls main(goldenPath, approveGolden).
Entry ==
  /\ pc = "entry"
  /\ Step("render", <<>>)
  /\ UNCHANGED <<runVars, compareVars, fs, browser, bodyScrollHeight, viewport,
                 currentScreenshotBuffer>>

\* Variant: a rejected render is noted and main() goes on to launch the browser.
Render_failureIgnored ==
  /\ pc = "render"
  /\ \E ok \in BOOLEAN :
       /\ thrown' = IF ok THEN thrown ELSE "RenderError"
       /\ pc' = "launch"
       /\ log' = log \o <<Ev("call:render", 0)>>
       /\ UNCHANGED exitCode
  /\ UNCHANGED <<runVars, compareVars, fs, browser, bodyScrollHeight, viewport,
                 currentScreenshotBuffer>>

\* Line 68: await renderKitchenSinkOnServer().
Render ==
  /\ pc = "render"
  /\ \E ok \in BOOLEAN :
       IF ok THEN Step("launch", <<Ev("call:render", 0)>>)
             ELSE Throw("RenderError", <<Ev("call:render", 0)>>)
  /\ UNCHANGED <<runVars, compareVars, fs, browser, bodyScrollHeight, viewport,
                 currentScreenshotBuffer>>

\* Lines 69-72: await launch({executablePath: runfiles.resolve(...), headless: true}).
\* Without a CHROMIUM entry runfiles.resolve(undefined) throws before launch is called.
Launch ==
  /\ pc = "launch"
  /\ IF webTestEnv = "noChromium"
       THEN /\ Throw("ResolveError", <<>>)
            /\ UNCHANGED browser
       ELSE \E ok \in BOOLEAN :
              IF ok THEN /\ browser' = "open"
                         /\ Step("newPage", <<Ev("call:launch", 0)>>)
                    ELSE /\ Throw("LaunchError", <<Ev("call:launch", 0)>>)
                         /\ UNCHANGED browser
  /\ UNCHANGED <<runVars, compareVars, fs, bodyScrollHeight, viewport,
                 currentScreenshotBuffer>>

\* Line 74: await browser.newPage().
NewPage ==
  /\ pc = "newPage"
  /\ \E ok \in BOOLEAN :
       IF ok THEN Step("goto", <<Ev("call:newPage", 0)>>)
             ELSE Throw("NewPageError", <<Ev("call:newPage", 0)>>)
  /\ UNCHANGED <<runVars, compareVars, fs, browser, bodyScrollHeight, viewport,
                 currentScreenshotBuffer>>

\* Variant: a failed navigation is tried once more.
PageGoto_retry ==
  /\ pc = "goto"
  /\ \E ok \in BOOLEAN :
       IF ok THEN Step("evaluate", <<Ev("call:goto", 0)>>)
       ELSE IF Count("call:goto") = 0
              THEN Step("goto", <<Ev("call:goto", 0)>>)
              ELSE Throw("NavigationError", <<Ev("call:goto", 0)>>)
  /\ UNCHANGED <<runVars, compareVars, fs, browser, bodyScrollHeight, viewport,
                 currentScreenshotBuffer>>

\* Line 75: await page.goto(`file://${outputPath}`).
PageGoto ==
  /\ pc = "goto"
  /\ \E ok \in BOOLEAN :
       IF ok THEN Step("evaluate", <<Ev("call:goto", 0)>>)
             ELSE Throw("NavigationError", <<Ev("call:goto", 0)>>)
  /\ UNCHANGED <<runVars, compareVars, fs, browser, bodyScrollHeight, viewport,
                 currentScreenshotBuffer>>

\* Line 125: await page.evaluate(() => document.body.scrollHeight).
Evaluate ==
  /\ pc = "evaluate"
  /\ \/ \E h \in 1..MaxScrollHeight :
          /\ bodyScrollHeight' = h
          /\ Step("setViewport", <<Ev("call:evaluate", h)>>)
     \/ /\ Throw("EvaluateError", <<Ev("call:evaluate", 0)>>)
        /\ UNCHANGED bodyScrollHeight
  /\ UNCHANGED <<runVars, compareVars, fs, browser, viewport, currentScreenshotBuffer>>

\* Variant: width and height of the viewport are swapped.
SetViewport_swapped ==
  /\ pc = "setViewport"
  /\ \E ok \in BOOLEAN :
       IF ok THEN /\ viewport' = [width |-> bodyScrollHeight,
                                  height |-> screenshotBrowserWidth]
                  /\ Step("screenshot", <<Ev("call:setViewport", bodyScrollHeight)>>)
             ELSE /\ Throw("ViewportError", <<Ev("call:setViewport", bodyScrollHeight)>>)
                  /\ UNCHANGED viewport
  /\ UNCHANGED <<runVars, compareVars, fs, browser, bodyScrollHeight,
                 currentScreenshotBuffer>>

\* Lines 129-132: await page.setViewport({width, height}).
SetViewport ==
  /\ pc = "setViewport"
  /\ \E ok \in BOOLEAN :
       IF ok THEN /\ viewport' = [width |-> screenshotBrowserWidth,
                                  height |-> bodyScrollHeight]
                  /\ Step("screenshot", <<Ev("call:setViewport", bodyScrollHeight)>>)
             ELSE /\ Throw("ViewportError", <<Ev("call:setViewport", bodyScrollHeight)>>)
                  /\ UNCHANGED viewport
  /\ UNCHANGED <<runVars, compareVars, fs, browser, bodyScrollHeight,
                 currentScreenshotBuffer>>

\* Line 77: await page.screenshot({encoding: 'binary'}).
Screenshot ==
  /\ pc = "screenshot"
  /\ \E ok \in BOOLEAN :
       IF ok THEN /\ currentScreenshotBuffer' = rendered
                  /\ Step("close", <<Ev("call:screenshot", 0)>>)
             ELSE /\ Throw("CaptureError", <<Ev("call:screenshot", 0)>>)
                  /\ UNCHANGED currentScreenshotBuffer
  /\ UNCHANGED <<runVars, compareVars, fs, browser, bodyScrollHeight, viewport>>

\* Variant: main() goes on without closing the browser.
Close_skipped ==
  /\ pc = "close"
  /\ Step("branch", <<>>)
  /\ UNCHANGED <<runVars, compareVars, fs, browser, bodyScrollHeight, viewport,
                 currentScreenshotBuffer>>

\* Line 78: await browser.close().
Close ==
  /\ pc = "close"
  /\ \E ok \in BOOLEAN :
       IF ok THEN /\ browser' = "closed"
                  /\ Step("branch", <<Ev("call:close", 0)>>)
             ELSE /\ Throw("CloseError", <<Ev("call:close", 0)>>)
                  /\ UNCHANGED browser
  /\ UNCHANGED <<runVars, compareVars, fs, bodyScrollHeight, viewport,
                 currentScreenshotBuffer>>

\* Variants of the branch: the flag read the wrong way round, and always taken.
ApproveBranch_inverted(flag) == ~flag

ApproveBranch_always(flag) == TRUE

\* Line 80: if (approveGolden).
ApproveBranch(flag) == flag

\* Variant: the last byte of the buffer is not written.
GoldenBytes_truncated(buffer) == SubSeq(buffer, 1, Len(buffer) - 1)

\* Line 81: the bytes written to the golden path.
GoldenBytes(buffer) == buffer

\* Lines 80-81: in approve mode the golden is replaced by the screenshot.
Approve ==
  /\ pc = "branch"
  /\ ApproveBranch(approveGolden)
  /\ fs' = writeFileSync(fs, goldenPath, GoldenBytes(currentScreenshotBuffer))
  /\ Step("approved", <<Ev("write:golden", 0)>>)
  /\ UNCHANGED <<runVars, compareVars, browser, bodyScrollHeight, viewport,
                 currentScreenshotBuffer>>

\* Variant: the return of line 83 is missing and main() goes on to compare.
ApproveReturn_fallsThrough ==
  /\ pc = "approved"
  /\ currentScreenshot' = decode(currentScreenshotBuffer)
  /\ goldenScreenshot' = decode(fs[goldenPath].bytes)
  /\ Step("diff", <<Ev("stdout:golden-updated", 0), Ev("read:golden", 0)>>)
  /\ UNCHANGED <<runVars, fs, browser, bodyScrollHeight, viewport,
                 currentScreenshotBuffer, diffImageData, numDiffPixels>>

\* Lines 82-83: 'Golden screenshot updated.', main() returns and the process ends
\* with 0.
ApproveReturn ==
  /\ pc = "approved"
  /\ Exit(0, <<Ev("stdout:golden-updated", 0)>>)
  /\ UNCHANGED <<runVars, compareVars, fs, browser, bodyScrollHeight, viewport,
                 currentScreenshotBuffer>>

\* Variant: a missing golden is taken to be the screenshot itself.
LoadGolden_missingAsCurrent ==
  /\ pc = "branch"
  /\ ~ApproveBranch(approveGolden)
  /\ currentScreenshot' = decode(currentScreenshotBuffer)
  /\ goldenScreenshot' = IF fs[goldenPath].exists THEN decode(fs[goldenPath].bytes)
                                                  ELSE decode(currentScreenshotBuffer)
  /\ Step("diff", <<Ev("read:golden", 0)>>)
  /\ UNCHANGED <<runVars, fs, browser, bodyScrollHeight, viewport,
                 currentScreenshotBuffer, diffImageData, numDiffPixels>>

\* Lines 86-87: decode the screenshot, read and decode the golden.
LoadGolden ==
  /\ pc = "branch"
  /\ ~ApproveBranch(approveGolden)
  /\ currentScreenshot' = decode(currentScreenshotBuffer)
  /\ IF fs[goldenPath].exists
       THEN /\ goldenScreenshot' = decode(fs[goldenPath].bytes)
            /\ Step("diff", <<Ev("read:golden", 0)>>)
       ELSE /\ Throw("ENOENT", <<Ev("read:golden", 0)>>)
            /\ UNCHANGED goldenScreenshot
  /\ UNCHANGED <<runVars, fs, browser, bodyScrollHeight, viewport,
                 currentScreenshotBuffer, diffImageData, numDiffPixels>>

\* Lines 88-92: pixelmatch over the two decoded buffers, then the 'diff perc' line.
Diff ==
  /\ pc = "diff"
  /\ LET output == Uint8Array(Len(currentScreenshot.data)) IN
       IF pixelmatchThrows(goldenScreenshot.data, currentScreenshot.data, output,
                           currentScreenshot.width, currentScreenshot.height)
         THEN /\ Throw("ImageSizesDoNotMatch", <<Ev("call:pixelmatch", 0)>>)
              /\ diffImageData' = output
              /\ UNCHANGED numDiffPixels
         ELSE /\ numDiffPixels' = pixelmatch(goldenScreenshot.data, currentScreenshot.data)
              /\ diffImageData' = pixelmatchOutput(goldenScreenshot.data,
                                                   currentScreenshot.data)
              /\ Step("report", <<Ev("call:pixelmatch", 0),
                                  Ev("stderr:diff-perc", numDiffPixels')>>)
  /\ UNCHANGED <<runVars, fs, browser, bodyScrollHeight, viewport,
                 currentScreenshotBuffer, currentScreenshot, goldenScreenshot>>

\* Variants of the gate: one differing pixel tolerated, and always failing.
Mismatch_tolerant(n) == n > 1

Mismatch_always(n) == TRUE

\* Line 94: if (numDiffPixels !== 0).
Mismatch(n) == n # 0

\* Lines 94-108: on a mismatch the diff image is written and the process exits with
\* 1; otherwise main() returns and the process ends with 0.
Report ==
  /\ pc = "report"
  /\ IF Mismatch(numDiffPixels)
       THEN /\ fs' = writeFileSync(fs, screenshotDiffPath,
                       encode([width |-> currentScreenshot.width,
                               height |-> currentScreenshot.height,
                               data |-> diffImageData]))
            /\ Exit(1, <<Ev("write:diff", 0),
                         Ev("stderr:pixels-do-not-match", numDiffPixels),
                         Ev("stderr:update-command", 0),
                         Ev("stderr:see-diff", 0)>>)
       ELSE /\ Exit(0, <<Ev("stdout:golden-matches", 0)>>)
            /\ UNCHANGED fs
  /\ UNCHANGED <<runVars, compareVars, browser, bodyScrollHeight, viewport,
                 currentScreenshotBuffer>>

\* Lines 60-63: main(...).catch logs the error and exits with 1.
Catch ==
  /\ pc = "catch"
  /\ Exit(1, <<Ev("stderr:error", 0)>>)
  /\ UNCHANGED <<runVars, compareVars, fs, browser, bodyScrollHeight, viewport,
                 currentScreenshotBuffer>>

\* The script is invoked again: a new process with new arguments and environment,
\* the same rendered page and the files the earlier invocation left behind.
NextRun ==
  /\ pc = "exited"
  /\ run < MaxRuns
  /\ run' = run + 1
  /\ prev' = [ran |-> TRUE, approve |-> approveGolden, exitCode |-> exitCode]
  /\ fsAtStart' = fs
  /\ webTestEnv' \in Envs
  /\ approveGolden' \in BOOLEAN
  /\ pc' = "load"
  /\ browser' = "none"
  /\ bodyScrollHeight' = 0
  /\ viewport' = [width |-> 0, height |-> 0]
  /\ currentScreenshotBuffer' = <<>>
  /\ currentScreenshot' = NoImage
  /\ goldenScreenshot' = NoImage
  /\ diffImageData' = <<>>
  /\ numDiffPixels' = NoCount
  /\ thrown' = "none"
  /\ exitCode' = NoExit
  /\ log' = <<>>
  /\ UNCHANGED <<fs, rendered>>

\* A step of the running process.
RunStep ==
  \/ ModuleInit
  \/ Entry
  \/ Render
  \/ Launch
  \/ NewPage
  \/ PageGoto
  \/ Evaluate
  \/ SetViewport
  \/ Screenshot
  \/ Close
  \/ Approve
  \/ ApproveReturn
  \/ LoadGolden
  \/ Diff
  \/ Report
  \/ Catch

\* Steps of main() and of the entry point, in program order.
Next ==
  \/ ModuleInit
  \/ Entry
  \/ Render
  \/ Launch
  \/ NewPage
  \/ PageGoto
  \/ Evaluate
  \/ SetViewport
  \/ Screenshot
  \/ Close
  \/ Approve
  \/ ApproveReturn
  \/ LoadGolden
  \/ Diff
  \/ Report
  \/ Catch
  \/ NextRun

Spec == Init /\ [][Next]_vars

\* Every awaited call settles and the event loop runs the continuation: a process
\* that can take a step takes one.
FairSpec == Spec /\ WF_vars(RunStep)

(***************************************************************************)
(* Properties.                                                             *)
(***************************************************************************)
Exited == pc = "exited"

\* launch() returned a browser handle in this run.
Launched == browser # "none"

\* The capture is complete: the screenshot was taken and close() returned.
Captured == browser = "closed"

\* The golden was read and decoded in this run.
GoldenLoaded == goldenScreenshot # NoImage

SameDimensions ==
  /\ goldenScreenshot.width = currentScreenshot.width
  /\ goldenScreenshot.height = currentScreenshot.height

Logged(name, n) == \E i \in DOMAIN log : log[i] = Ev(name, n)

\* C1: in every run in which launch succeeded, browser.close() has been called
\* exactly once when the process exits, whichever step failed.
C1_CloseOnEveryExit ==
  (Exited /\ Launched) => Count("call:close") = 1

\* C2: a verify run whose golden differs from the screenshot in width or height exits
\* with 1 and never calls pixelmatch.
C2_DimensionMismatch ==
  (Exited /\ ~approveGolden /\ GoldenLoaded /\ ~SameDimensions)
    => (exitCode = 1 /\ Count("call:pixelmatch") = 0)

\* C3: an approve run whose capture succeeded leaves the golden file holding exactly
\* the screenshot bytes of this run, and exits with 0.
C3_ApproveOverwrites ==
  (Exited /\ approveGolden /\ Captured)
    => /\ fs[goldenPath] = File(rendered)
       /\ decode(fs[goldenPath].bytes) \in Images
       /\ exitCode = 0

C3_Witness ==
  /\ Exited /\ approveGolden /\ Captured
  /\ fsAtStart[goldenPath].exists
  /\ fsAtStart[goldenPath] # fs[goldenPath]

\* C4: an approve run never reads the golden, never calls pixelmatch and never
\* writes the diff file, whatever the golden was before.
C4_ApproveNoComparison ==
  approveGolden
    => /\ Count("read:golden") = 0
       /\ Count("call:pixelmatch") = 0
       /\ Count("write:diff") = 0
       /\ fs[screenshotDiffPath] = fsAtStart[screenshotDiffPath]
       /\ numDiffPixels = NoCount

C4_Witness ==
  /\ Exited /\ approveGolden /\ Captured
  /\ ~fsAtStart[goldenPath].exists
  /\ Count("write:golden") = 1

\* C5: a verify run over equally sized images with a nonzero number of differing
\* pixels, be it 1, reports that number as a mismatch and exits with 1; it never
\* reports a match.
C5_ZeroTolerance ==
  (Exited /\ ~approveGolden /\ GoldenLoaded /\ SameDimensions /\ numDiffPixels > 0)
    => /\ exitCode = 1
       /\ Logged("stderr:pixels-do-not-match", numDiffPixels)
       /\ Count("stdout:golden-matches") = 0

C5_Witness ==
  /\ Exited /\ ~approveGolden /\ GoldenLoaded /\ SameDimensions
  /\ numDiffPixels = 1
  /\ Len(currentScreenshot.data) > 1

\* The run compared images of the same dimensions and found no differing pixel.
Matched == GoldenLoaded /\ SameDimensions /\ numDiffPixels = 0

\* C6: the exit code is 0 exactly when a verify run matched or an approve run
\* completed its write; every other run that ended exits with 1.
C6_ExitCode ==
  Exited
    => /\ exitCode \in {0, 1}
       /\ exitCode = 0 <=> IF approveGolden THEN Count("write:golden") = 1
                                            ELSE Matched

\* C7: a verify run right after a successful approve run of the same rendered page
\* matches: exit code 0, the match message, no diff file written.
C7_ApproveThenVerify ==
  (Exited /\ ~approveGolden /\ Captured
     /\ prev.ran /\ prev.approve /\ prev.exitCode = 0)
    => /\ exitCode = 0
       /\ numDiffPixels = 0
       /\ Count("stdout:golden-matches") = 1
       /\ Count("write:diff") = 0
       /\ fs[screenshotDiffPath] = fsAtStart[screenshotDiffPath]

C7_Witness ==
  /\ Exited /\ ~approveGolden /\ Captured
  /\ prev.ran /\ prev.approve /\ prev.exitCode = 0
  /\ Count("call:pixelmatch") = 1

\* C8: a verify run whose golden and screenshot are the same image finds 0 differing
\* pixels, prints the match message and exits with 0.
C8_IdenticalBuffersMatch ==
  (Exited /\ ~approveGolden /\ GoldenLoaded /\ goldenScreenshot = currentScreenshot)
    => /\ numDiffPixels = 0
       /\ Count("stdout:golden-matches") = 1
       /\ exitCode = 0

C8_Witness ==
  /\ Exited /\ ~approveGolden /\ GoldenLoaded /\ goldenScreenshot = currentScreenshot
  /\ run = 1
  /\ Len(currentScreenshot.data) = MaxPixels

\* C9: the diff file is written in a run exactly when the run is a verify run whose
\* comparison found differing pixels; it is written once, with the process then
\* exiting with 1, and is left alone in every other run.
C9_DiffArtifact ==
  /\ Count("write:diff") > 0 => (Exited /\ exitCode = 1 /\ Count("write:diff") = 1)
  /\ Count("write:diff") = 0 => fs[screenshotDiffPath] = fsAtStart[screenshotDiffPath]
  /\ Exited => (Count("write:diff") = 1 <=> (~approveGolden /\ numDiffPixels > 0))
  /\ Exited /\ Count("write:diff") = 1
       => fs[screenshotDiffPath] =
            File(encode([width |-> currentScreenshot.width,
                         height |-> currentScreenshot.height,
                         data |-> diffImageData]))

C9_Witness ==
  /\ Exited /\ Count("write:diff") = 1
  /\ ~fsAtStart[screenshotDiffPath].exists
  /\ fs[screenshotDiffPath].exists

\* C10: a verify run never writes the golden file: whatever the outcome, its content
\* is the content the run started with.
C10_VerifyKeepsGolden ==
  ~approveGolden
    => /\ fs[goldenPath] = fsAtStart[goldenPath]
       /\ Count("write:golden") = 0

C10_Witness ==
  /\ Exited /\ ~approveGolden /\ exitCode = 1
  /\ Count("read:golden") = 1
  /\ Count("write:diff") = 1

\* C11: a verify run that finds no file at the golden path ends in the catch handler
\* with exit code 1: pixelmatch is not called, no diff file is written, no golden
\* file appears and no mismatch message is printed.
C11_GoldenNotFound ==
  (Exited /\ ~approveGolden /\ Captured /\ ~fsAtStart[goldenPath].exists)
    => /\ exitCode = 1
       /\ thrown = "ENOENT"
       /\ Count("stderr:error") = 1
       /\ Count("call:pixelmatch") = 0
       /\ Count("write:diff") = 0
       /\ fs = fsAtStart
       /\ Count("stderr:pixels-do-not-match") = 0
       /\ Count("stdout:golden-matches") = 0

C11_Witness ==
  /\ Exited /\ ~approveGolden /\ Captured
  /\ ~fsAtStart[goldenPath].exists
  /\ Count("read:golden") = 1

\* C12: when the renderer fails the process exits with 1 and the browser was never
\* launched, the golden neither read nor written and no diff file written; a launch
\* happens only after the render call returned.
C12_RenderFailure ==
  /\ (Exited /\ thrown = "RenderError")
       => /\ exitCode = 1
          /\ Count("call:launch") = 0
          /\ browser = "none"
          /\ Count("read:golden") = 0
          /\ Count("write:golden") = 0
          /\ Count("write:diff") = 0
          /\ fs = fsAtStart
  /\ Count("call:launch") > 0
       => (thrown # "RenderError" /\ 0 < Pos("call:render")
             /\ Pos("call:render") < Pos("call:launch"))

C12_Witness ==
  /\ Exited /\ thrown = "RenderError"
  /\ Count("call:render") = 1
  /\ fs[goldenPath].exists

\* C13: a verify run that ends with a non-zero exit code because the golden and the
\* screenshot differ, in pixels or in dimensions, has printed the number of differing
\* pixels (when pixelmatch returned one), where the diff is and the command that
\* updates the golden.
C13_MismatchDiagnostic ==
  (Exited /\ ~approveGolden /\ GoldenLoaded /\ exitCode # 0
     /\ (~SameDimensions \/ numDiffPixels > 0))
    => /\ Count("stderr:update-command") = 1
       /\ Count("stderr:see-diff") = 1
       /\ numDiffPixels > 0 => Logged("stderr:pixels-do-not-match", numDiffPixels)

\* C14: without the web test metadata variable, or without a CHROMIUM entry in the
\* metadata, the process exits with 1 after a diagnostic and has done nothing else:
\* no render, no launch, no file read or written.
C14_EnvironmentError ==
  (Exited /\ webTestEnv # "ok")
    => /\ exitCode = 1
       /\ Count("stderr:no-browser") + Count("stderr:error") = 1
       /\ Count("call:render") = 0
       /\ Count("call:launch") = 0
       /\ Count("read:golden") = 0
       /\ fs = fsAtStart

\* The steps of the workflow, in program order.
WorkflowSteps ==
  <<"call:render", "call:launch", "call:newPage", "call:goto", "call:evaluate",
    "call:setViewport", "call:screenshot", "call:close", "read:golden",
    "call:pixelmatch">>

\* The step an error comes from; without a CHROMIUM entry the error is raised
\* between the render and the launch call.
FailedStep(err) ==
  CASE err = "RenderError" -> "call:render"
    [] err = "ResolveError" -> "call:render"
    [] err = "LaunchError" -> "call:launch"
    [] err = "NewPageError" -> "call:newPage"
    [] err = "NavigationError" -> "call:goto"
    [] err = "EvaluateError" -> "call:evaluate"
    [] err = "ViewportError" -> "call:setViewport"
    [] err = "CaptureError" -> "call:screenshot"
    [] err = "CloseError" -> "call:close"
    [] err = "ENOENT" -> "read:golden"
    [] err = "ImageSizesDoNotMatch" -> "call:pixelmatch"

\* The log without the line the catch handler prints.
Calls == SelectSeq(log, LAMBDA e : e.ev # "stderr:error")

\* C15: no step of the workflow is invoked twice in a run, the steps that were
\* invoked came in program order, and once a step failed nothing follows it: the
\* failed step is the last one in the log and no file was written.
C15_NoRetries ==
  /\ \A i \in DOMAIN WorkflowSteps : Count(WorkflowSteps[i]) <= 1
  /\ \A j \in 2..Len(WorkflowSteps) :
       Count(WorkflowSteps[j]) = 1
         => (Count(WorkflowSteps[j - 1]) = 1
               /\ Pos(WorkflowSteps[j - 1]) < Pos(WorkflowSteps[j]))
  /\ thrown # "none"
       => /\ pc \in {"catch", "exited"}
          /\ Calls # <<>>
          /\ Calls[Len(Calls)].ev = FailedStep(thrown)
          /\ fs = fsAtStart

C15_Witness ==
  /\ Exited /\ thrown = "NavigationError"
  /\ Count("call:goto") = 1
  /\ Count("call:evaluate") = 0

\* The state of the workflow the process is in.  A run that failed fatally is
\* aborted: it reports nothing but the error.
Stage ==
  CASE pc \in {"load", "entry", "render"} -> "Start"
    [] pc \in {"launch", "newPage", "goto", "evaluate", "setViewport", "screenshot",
               "close"} -> "Rendered"
    [] pc = "branch" -> "Captured"
    [] pc = "approved" -> "Approved"
    [] pc \in {"diff", "report"} -> "Compared"
    [] pc = "catch" -> "Aborted"
    [] pc = "exited" -> IF thrown # "none" \/ Count("stderr:no-browser") = 1
                          THEN "Aborted" ELSE "Reported"

StageOrder ==
  {<<"Start", "Rendered">>, <<"Rendered", "Captured">>, <<"Captured", "Approved">>,
   <<"Captured", "Compared">>, <<"Approved", "Reported">>, <<"Compared", "Reported">>}

StageStep ==
  /\ \/ Stage' = Stage
     \/ <<Stage, Stage'>> \in StageOrder
     \/ Stage' = "Aborted" /\ Stage # "Reported"
     \/ Stage \in {"Reported", "Aborted"} /\ Stage' = "Start" /\ run' = run + 1
  /\ Stage' = "Approved" => approveGolden'
  /\ Stage' = "Compared" => ~approveGolden'

\* C16: the workflow moves along Start, Rendered, Captured, then Approved (approve
\* flag set) or Compared (flag unset), then Reported, one state at a time and never
\* back; a fatal error aborts it where it is; a run never both writes and reads the
\* golden; and every run that started ends with an exit code.
C16_Workflow ==
  /\ [][StageStep]_vars
  /\ [](Count("write:golden") = 0 \/ Count("read:golden") = 0)
  /\ []((pc = "load") => <>(Exited /\ exitCode \in {0, 1}))

C16_Witness ==
  /\ Exited /\ Stage = "Reported" /\ approveGolden
  /\ run = 2 /\ prev.exitCode = 1

\* C17: when the screenshot is taken, launch, newPage, goto, evaluate, setViewport
\* and screenshot have been called once each in this order, and the viewport is
\* 1920 wide and as high as the scroll height evaluate returned after the
\* navigation.
C17_CaptureOrder ==
  Count("call:screenshot") = 1
    => /\ 0 < Pos("call:launch")
       /\ Pos("call:launch") < Pos("call:newPage")
       /\ Pos("call:newPage") < Pos("call:goto")
       /\ Pos("call:goto") < Pos("call:evaluate")
       /\ Pos("call:evaluate") < Pos("call:setViewport")
       /\ Pos("call:setViewport") < Pos("call:screenshot")
       /\ viewport.width = 1920
       /\ viewport.height = log[Pos("call:evaluate")].n
       /\ viewport.height \in 1..MaxScrollHeight

C17_Witness ==
  /\ Count("call:screenshot") = 1
  /\ currentScreenshotBuffer # <<>>
  /\ viewport.height = MaxScrollHeight

\* The steps that touch the golden file, run pixelmatch or write the diff file.
FileSteps == {"read:golden", "write:golden", "call:pixelmatch", "write:diff"}

\* C18: a run launches at most one browser, and whenever the golden is read or
\* written, pixelmatch runs or the diff file is written, the browser has already
\* been closed.
C18_BrowserClosedFirst ==
  /\ Count("call:launch") <= 1
  /\ pc \in {"branch", "approved", "diff", "report"} => browser = "closed"
  /\ \A f \in FileSteps :
       Count(f) > 0 => /\ browser = "closed"
                       /\ 0 < Pos("call:close")
                       /\ Pos("call:close") < Pos(f)

C18_Witness ==
  /\ pc = "report" /\ browser = "closed"
  /\ Count("call:pixelmatch") = 1
====
